---- MODULE Spec2Model ----
(***************************************************************************)
(* Model of the data-preparation pipeline of route_optmisation:            *)
(*   - the two chunked distance-matrix builders,                           *)
(*       build_osrm_distance_matrix  (src/data_prep/osm_distance_matrix.py)*)
(*       get_osrm_matrix_chunked     (src/data_prep/prepare_global_data.py)*)
(*     run against a distance service whose responses are inputs;          *)
(*   - the node catalog of prepare_global_data (depots, then customers).   *)
(*                                                                         *)
(* Python lists are 0-based: a matrix is a function on 0..n-1, a Python    *)
(* list such as a chunk is a TLA+ sequence whose position p holds the      *)
(* element of Python index p-1.                                            *)
(*                                                                         *)
(* A distance the service returns is a JSON number or null.  A number is   *)
(* held in units of 1/Frac metre (so that int() truncates something),      *)
(* wrapped in a one-element sequence; null is the empty sequence.          *)
(***************************************************************************)
EXTENDS Integers, Sequences, FiniteSets, TLC

\* ------------------------------------------------------------- bounds
MaxN == 3
MaxChunk == 2
MaxAnom == 1
Frac == 2
MaxRows == 2

\* ------------------------------------------------- program constants
MAX_POINTS == 80
CHUNK_SIZE == 50
SENTINEL == 999999
AVERAGE_SPEED_KMPH == 50
MAX_ROUTE_TIME_HOURS == 5

VARIABLES
    fn,         \* which builder runs: "build_osrm_distance_matrix" or "get_osrm_matrix_chunked"
    n,          \* len(locations)
    chunk,      \* the chunk size (MAX_POINTS / CHUNK_SIZE in the source)
    pc,         \* position in the builder
    ci, cj,     \* the enumerate() indices of the two chunk loops
    matrix,     \* the local distance_matrix / matrix
    request,    \* the query in flight: coords, sources, destinations
    response,   \* the response being handled
    result,     \* what the caller gets
    inflight,   \* history: queries issued and not yet answered
    queries,    \* history: queries issued
    copies,     \* history: responses copied into the matrix
    sleeps,     \* history: time.sleep calls completed
    issued,     \* history: the (source chunk, destination chunk) of each query
    answered,   \* history: per global cell, the values the service answered
    anoms,      \* history: number of cells the service answered off its table
    failedAt,   \* history: number of the query that got a failure response
    outcomes,   \* history: what the builder did with each failure it met
    rows,           \* the data frame read from the spreadsheet, in row order
    cpc,            \* position in prepare_global_data
    unique_depots,  \* df[col_dispatch].dropna().unique()
    nodes,          \* the node list
    depot_indices,  \* the indices of the depot nodes
    depot_real_names, \* depot index -> stripped dispatch label
    di,             \* position of the depot loop in unique_depots
    ri,             \* position of the customer loop in the rows
    count_cust,     \* customers added
    d_keys,         \* history: the d_key computed for each depot node
    node_row,       \* history: per node, the row it was made from (0: none)
    fleet_config,   \* FLEET_CONFIG: the (name, capacity list) entries, in order
    locations,      \* prepare_global_data: the (lat, lon) of each node
    starts,         \* per vehicle, the index of its start node
    ends,           \* per vehicle, the index of its end node
    capacities,     \* per vehicle, its capacity
    fi,             \* position of the fleet loop in depot_indices
    fleets,         \* history: the fleet the loop used for each depot
    output,         \* the document written to the output file, if any
    data,                   \* check_feasibility: the document it loaded
    fpc,                    \* position in check_feasibility
    f_depot_indices,        \* its depot_indices
    f_customer_indices,     \* its customer_indices
    max_vehicle_cap,        \* max(capacities)
    fk,                     \* position of the current loop in customer_indices
    impossible_load_count,
    impossible_time_count,
    load_fails,             \* history: the nodes the capacity check reported
    time_fails,             \* history: the nodes the time check reported, and how
    spc,                \* position in process_and_split
    groups,             \* the dispatch labels of the groups, in groupby order
    gi,                 \* position of the group loop in groups
    gri,                \* position of the row loop in the group
    s_locations,        \* process_and_split: the locations of the group
    s_demands,          \* process_and_split: the demands of the group
    bad_rows,           \* the rows of the group with invalid coordinates
    failed_dispatches,  \* the (dispatch label, reason) of each failed group
    written             \* history: the documents written, in order

mvars == <<fn, n, chunk, pc, ci, cj, matrix, request, response, result,
           inflight, queries, copies, sleeps, issued, answered, anoms,
           failedAt, outcomes>>

cvars == <<rows, cpc, unique_depots, nodes, depot_indices, depot_real_names,
           di, ri, count_cust, d_keys, node_row>>

gvars == <<fleet_config, locations, starts, ends, capacities, fi, fleets, output>>

fvars == <<data, fpc, f_depot_indices, f_customer_indices, max_vehicle_cap, fk,
           impossible_load_count, impossible_time_count, load_fails, time_fails>>

svars == <<spc, groups, gi, gri, s_locations, s_demands, bad_rows,
           failed_dispatches, written>>

xvars == <<gvars, fvars, svars>>

\* What each program leaves alone.
OutsideGlobal == <<fvars, svars>>
OutsideFeasibility == <<mvars, cvars, gvars, svars>>
OutsideSplit == <<cpc, unique_depots, nodes, depot_indices, depot_real_names,
                  di, ri, count_cust, d_keys, node_row, gvars, fvars>>

vars == <<mvars, cvars, xvars>>

\* ------------------------------------------------------------ values
Null == <<>>
Num(x) == <<x>>
IsNum(cell) == cell # Null
Min(a, b) == IF a < b THEN a ELSE b

\* int(x) on a non-negative JSON number: truncation to whole metres.
PyInt(x) == x \div Frac

\* Python truthiness of a distance: None and 0 / 0.0 are falsy.
Truthy(cell) == IsNum(cell) /\ cell[1] # 0

\* osm_distance_matrix.py:73   int(d) if d else 0
OsmCell(cell) == IF Truthy(cell) THEN PyInt(cell[1]) ELSE 0

\* prepare_global_data.py:85   int(dist_val) if dist_val is not None else 999999
GlobalCell(cell) == IF IsNum(cell) THEN PyInt(cell[1]) ELSE SENTINEL

\* list(range(a, b))
PyRange(a, b) == [p \in 1..(IF b > a THEN b - a ELSE 0) |-> a + p - 1]

\* Faulty variant of Chunks: the chunk start advances by size + 1, dropping an index.
ChunksSkipping(len, size) ==
    [k \in 1..((len + size) \div (size + 1)) |->
        PyRange((k - 1) * (size + 1), Min((k - 1) * (size + 1) + size, len))]

\* [list(range(i, min(i + size, n))) for i in range(0, n, size)]
Chunks(len, size) ==
    [k \in 1..((len + size - 1) \div size) |->
        PyRange((k - 1) * size, Min((k - 1) * size + size, len))]

\* [[0] * n for _ in range(n)]
ZeroMatrix(len) == [r \in 0..(len - 1) |-> [c \in 0..(len - 1) |-> 0]]

\* Faulty variant of FillMatrix: rows and columns exchanged when copying.
FillMatrixTransposed(m, src_idx, dst_idx, vals) ==
    [r \in DOMAIN m |-> [c \in DOMAIN m[r] |->
        IF \E i \in DOMAIN src_idx, j \in DOMAIN dst_idx :
               dst_idx[j] = r /\ src_idx[i] = c
        THEN LET i == CHOOSE i \in DOMAIN src_idx : src_idx[i] = c
                 j == CHOOSE j \in DOMAIN dst_idx : dst_idx[j] = r
             IN  vals[i][j]
        ELSE m[r][c]]]

\* for i, si in enumerate(src_idx): for j, dj in enumerate(dst_idx):
\*     matrix[si][dj] = <converted distances[i][j]>
FillMatrix(m, src_idx, dst_idx, vals) ==
    [r \in DOMAIN m |-> [c \in DOMAIN m[r] |->
        IF \E i \in DOMAIN src_idx, j \in DOMAIN dst_idx :
               src_idx[i] = r /\ dst_idx[j] = c
        THEN LET i == CHOOSE i \in DOMAIN src_idx : src_idx[i] = r
                 j == CHOOSE j \in DOMAIN dst_idx : dst_idx[j] = c
             IN  vals[i][j]
        ELSE m[r][c]]]

\* The request for one (source chunk, destination chunk): the coordinates of
\* both chunks in one list, sources 0..len(src)-1, destinations after them.
\* The coordinate of locations[k] is written k.
BuildRequest(src_idx, dst_idx) ==
    [coords |-> src_idx \o dst_idx,
     sources |-> PyRange(0, Len(src_idx)),
     destinations |-> [p \in 1..Len(dst_idx) |-> (p - 1) + Len(src_idx)]]

NoRequest == [coords |-> <<>>, sources |-> <<>>, destinations |-> <<>>]
NoResponse == [status |-> 0, payload |-> "absent", distances |-> <<>>]

Pending == [kind |-> "pending", m |-> <<>>]
Raised == [kind |-> "raise", m |-> <<>>]
ReturnedNone == [kind |-> "None", m |-> <<>>]
Returned(m) == [kind |-> "matrix", m |-> m]

\* ------------------------------------------------ the distance service
\* The service's table: 0 on the diagonal, a distinct whole number of metres
\* for every other ordered pair of locations.
Base(r, c) == IF r = c THEN Num(0) ELSE Num(Frac * (c + r * (MaxN + 1)))

\* What the service may answer instead of its table entry: null (no route),
\* exactly 0, and a fraction of a metre.
AnomValues == {Null, Num(0), Num(1)}

\* The rectangular answer to a request: row i, column j is the distance from
\* coords[sources[i]] to coords[destinations[j]] (0-based indices into coords),
\* except on the cells of `anom`.
Table(req, anom) ==
    [i \in 1..Len(req.sources) |->
        [j \in 1..Len(req.destinations) |->
            IF <<i, j>> \in DOMAIN anom
            THEN anom[<<i, j>>]
            ELSE Base(req.coords[req.sources[i] + 1],
                      req.coords[req.destinations[j] + 1])]]

\* ------------------------------------------------------------- Init
ChunkSizes(f) ==
    (1..MaxChunk) \cup {IF f = "build_osrm_distance_matrix" THEN MAX_POINTS ELSE CHUNK_SIZE}

MatrixFresh ==
    /\ ci = 0 /\ cj = 0
    /\ matrix = <<>>
    /\ request = NoRequest
    /\ response = NoResponse
    /\ result = Pending
    /\ inflight = 0 /\ queries = 0 /\ copies = 0 /\ sleeps = 0
    /\ issued = <<>>
    /\ answered = [r \in 0..(n - 1) |-> [c \in 0..(n - 1) |-> <<>>]]
    /\ failedAt = 0
    /\ outcomes = {}

MatrixIdle ==
    /\ pc = "start"
    /\ anoms = 0
    /\ MatrixFresh

CatalogFresh ==
    /\ unique_depots = <<>>
    /\ nodes = <<>>
    /\ depot_indices = <<>>
    /\ depot_real_names = <<>>
    /\ di = 1 /\ ri = 1
    /\ count_cust = 0
    /\ d_keys = <<>>
    /\ node_row = <<>>

CatalogIdle ==
    /\ cpc = "load"
    /\ CatalogFresh

\* FLEET_CONFIG (lines 28-36): an ordered mapping from depot name to the list
\* of vehicle capacities.  The names are labels as in the node catalog below:
\* their words, whether the text is all upper-case, whether it is padded.
FleetEntry(upper, words, caps) ==
    [key |-> [pad |-> FALSE, upper |-> upper, words |-> words], caps |-> caps]

FLEET_CONFIG ==
    << FleetEntry(FALSE, <<"MCC", "BULDHANA">>,  <<2000, 1000, 500, 500>>),
       FleetEntry(FALSE, <<"MCC", "BUTTIBORI">>, <<1000, 1000>>),
       FleetEntry(FALSE, <<"MCC", "DHANOLI">>,   <<1000, 500>>),
       FleetEntry(FALSE, <<"BMC", "MANAPUR">>,   <<1000, 1000>>),
       FleetEntry(FALSE, <<"BMC", "DAHID">>,     <<500, 500>>),
       FleetEntry(FALSE, <<"BMC", "DHAD">>,      <<500, 500>>),
       FleetEntry(TRUE,  <<"DEFAULT">>,          <<500, 500, 500>>) >>

NoOutput == <<>>

GlobalIdle ==
    /\ fleet_config = FLEET_CONFIG
    /\ locations = <<>>
    /\ starts = <<>> /\ ends = <<>> /\ capacities = <<>>
    /\ fi = 1
    /\ fleets = <<>>
    /\ output = NoOutput

NoData == <<>>

FeasibilityIdle ==
    /\ data = NoData
    /\ fpc = "idle"
    /\ f_depot_indices = <<>> /\ f_customer_indices = <<>>
    /\ max_vehicle_cap = 0
    /\ fk = 1
    /\ impossible_load_count = 0 /\ impossible_time_count = 0
    /\ load_fails = <<>> /\ time_fails = <<>>

SplitIdle ==
    /\ spc = "idle"
    /\ groups = <<>>
    /\ gi = 1 /\ gri = 1
    /\ s_locations = <<>> /\ s_demands = <<>>
    /\ bad_rows = <<>>
    /\ failed_dispatches = <<>>
    /\ written = <<>>

ExtrasIdle ==
    /\ GlobalIdle
    /\ FeasibilityIdle
    /\ SplitIdle

\* A builder is called with n locations; prepare_global_data is not running.
Init ==
    /\ fn \in {"build_osrm_distance_matrix", "get_osrm_matrix_chunked"}
    /\ n \in 0..MaxN
    /\ chunk \in ChunkSizes(fn)
    /\ MatrixIdle
    /\ rows = <<>>
    /\ CatalogIdle
    /\ ExtrasIdle

\* ------------------------------------------------- the matrix builders
NumChunks == Len(Chunks(n, chunk))
SrcIdx == Chunks(n, chunk)[ci + 1]
DstIdx == Chunks(n, chunk)[cj + 1]
HasNull(distances) ==
    \E i \in DOMAIN distances : \E j \in DOMAIN distances[i] :
        distances[i][j] = Null

history == <<inflight, queries, copies, sleeps, issued, answered, anoms, failedAt>>

\* build_osrm_distance_matrix, up to the first query.
EnterOsm ==
    /\ UNCHANGED <<cvars, xvars>>
    /\ fn = "build_osrm_distance_matrix" /\ pc = "start"
    /\ IF n = 0
       THEN /\ result' = Returned(<<>>)
            /\ pc' = "done"
            /\ UNCHANGED matrix
       ELSE IF n = 1
       THEN /\ result' = Returned([r \in {0} |-> [c \in {0} |-> 0]])
            /\ pc' = "done"
            /\ UNCHANGED matrix
       ELSE /\ matrix' = ZeroMatrix(n)
            /\ pc' = "request"
            /\ UNCHANGED result
    /\ UNCHANGED <<fn, n, chunk, ci, cj, request, response, history, outcomes>>

\* get_osrm_matrix_chunked, up to the first query.
EnterGlobal ==
    /\ UNCHANGED <<cvars, xvars>>
    /\ fn = "get_osrm_matrix_chunked" /\ pc = "start"
    /\ matrix' = ZeroMatrix(n)
    /\ IF NumChunks = 0
       THEN /\ result' = Returned(ZeroMatrix(n))
            /\ pc' = "done"
       ELSE /\ pc' = "request"
            /\ UNCHANGED result
    /\ UNCHANGED <<fn, n, chunk, ci, cj, request, response, history, outcomes>>

\* requests.get(...) is called for the chunk pair (ci, cj).
Issue ==
    /\ UNCHANGED <<cvars, xvars>>
    /\ pc = "request"
    /\ request' = BuildRequest(SrcIdx, DstIdx)
    /\ inflight' = inflight + 1
    /\ queries' = queries + 1
    /\ issued' = Append(issued, <<ci, cj>>)
    /\ pc' = "wait"
    /\ UNCHANGED <<fn, n, chunk, ci, cj, matrix, response, result,
                   copies, sleeps, answered, anoms, failedAt, outcomes>>

\* The cells of the request's rectangle: (row, column) positions.
Cells(req) == (1..Len(req.sources)) \X (1..Len(req.destinations))

Record(ans, req, distances) ==
    [r \in DOMAIN ans |-> [c \in DOMAIN ans[r] |->
        IF \E x \in Cells(req) :
               /\ req.coords[req.sources[x[1]] + 1] = r
               /\ req.coords[req.destinations[x[2]] + 1] = c
        THEN LET x == CHOOSE x \in Cells(req) :
                          /\ req.coords[req.sources[x[1]] + 1] = r
                          /\ req.coords[req.destinations[x[2]] + 1] = c
             IN  Append(ans[r][c], distances[x[1]][x[2]])
        ELSE ans[r][c]]]

\* The service answers with a non-success status.
RespondStatus ==
    /\ pc = "wait"
    /\ response' = [status |-> 500, payload |-> "absent", distances |-> <<>>]
    /\ failedAt' = queries
    /\ UNCHANGED <<answered, anoms>>

\* The service answers 200 with no "distances" field, or with null for it.
RespondNoPayload ==
    /\ pc = "wait"
    /\ \E p \in {"absent", "null"} :
           response' = [status |-> 200, payload |-> p, distances |-> <<>>]
    /\ failedAt' = queries
    /\ UNCHANGED <<answered, anoms>>

\* The subsets of S of at most k elements.
RECURSIVE SubsetsUpTo(_, _)
SubsetsUpTo(S, k) ==
    IF k <= 0 THEN {{}}
    ELSE SubsetsUpTo(S, k - 1)
            \cup {A \cup {x} : A \in SubsetsUpTo(S, k - 1), x \in S}

\* The service answers 200 with a len(sources) x len(destinations) table.
RespondTable ==
    /\ pc = "wait"
    /\ \E A \in SubsetsUpTo(Cells(request), MaxAnom - anoms) :
         /\ Cardinality(A) <= MaxAnom - anoms
         /\ \E anom \in [A -> AnomValues] :
              /\ response' = [status |-> 200, payload |-> "matrix",
                              distances |-> Table(request, anom)]
              /\ answered' = Record(answered, request, Table(request, anom))
              /\ anoms' = anoms + Cardinality(A)
    /\ UNCHANGED failedAt

Respond ==
    /\ UNCHANGED <<cvars, xvars>>
    /\ (RespondStatus \/ RespondNoPayload \/ RespondTable)
    /\ inflight' = inflight - 1
    /\ pc' = "handle"
    /\ UNCHANGED <<fn, n, chunk, ci, cj, matrix, request, result,
                   queries, copies, sleeps, issued, outcomes>>

OsmValues(distances) ==
    [i \in DOMAIN distances |-> [j \in DOMAIN distances[i] |->
        OsmCell(distances[i][j])]]

GlobalValues(distances) ==
    [i \in DOMAIN distances |-> [j \in DOMAIN distances[i] |->
        GlobalCell(distances[i][j])]]

\* build_osrm_distance_matrix, lines 57-73: the response is checked and copied.
HandleOsm ==
    /\ UNCHANGED <<cvars, xvars>>
    /\ fn = "build_osrm_distance_matrix" /\ pc = "handle"
    /\ IF response.status # 200 \/ response.payload # "matrix"
       THEN /\ result' = Raised
            /\ pc' = "done"
            /\ outcomes' = outcomes \cup {"abort"}
            /\ UNCHANGED <<matrix, copies>>
       ELSE /\ matrix' = FillMatrix(matrix, SrcIdx, DstIdx,
                                    OsmValues(response.distances))
            /\ copies' = copies + 1
            /\ outcomes' = outcomes \cup
                   (IF HasNull(response.distances) THEN {"zero"} ELSE {})
            /\ pc' = "sleep"
            /\ UNCHANGED result
    /\ UNCHANGED <<fn, n, chunk, ci, cj, request, response,
                   inflight, queries, sleeps, issued, answered, anoms, failedAt>>

\* Faulty variant of HandleGlobal: a failed response is logged and the loop goes on
\* (continue in place of return None).
HandleGlobalContinues ==
    /\ UNCHANGED <<cvars, xvars>>
    /\ fn = "get_osrm_matrix_chunked" /\ pc = "handle"
    /\ IF response.status # 200 \/ response.payload # "matrix"
       THEN /\ pc' = "sleep"
            /\ UNCHANGED <<matrix, copies, outcomes, result>>
       ELSE /\ matrix' = FillMatrix(matrix, SrcIdx, DstIdx,
                                    GlobalValues(response.distances))
            /\ copies' = copies + 1
            /\ outcomes' = outcomes \cup
                   (IF HasNull(response.distances) THEN {"sentinel"} ELSE {})
            /\ pc' = "sleep"
            /\ UNCHANGED result
    /\ UNCHANGED <<fn, n, chunk, ci, cj, request, response,
                   inflight, queries, sleeps, issued, answered, anoms, failedAt>>

\* get_osrm_matrix_chunked, lines 74-91: the response is checked and copied;
\* a missing "distances" key (KeyError) and a null one (TypeError on the first
\* distances[r][c]) are caught by the except clause.
HandleGlobal ==
    /\ UNCHANGED <<cvars, xvars>>
    /\ fn = "get_osrm_matrix_chunked" /\ pc = "handle"
    /\ IF response.status # 200 \/ response.payload # "matrix"
       THEN /\ result' = ReturnedNone
            /\ pc' = "done"
            /\ outcomes' = outcomes \cup {"abort"}
            /\ UNCHANGED <<matrix, copies>>
       ELSE /\ matrix' = FillMatrix(matrix, SrcIdx, DstIdx,
                                    GlobalValues(response.distances))
            /\ copies' = copies + 1
            /\ outcomes' = outcomes \cup
                   (IF HasNull(response.distances) THEN {"sentinel"} ELSE {})
            /\ pc' = "sleep"
            /\ UNCHANGED result
    /\ UNCHANGED <<fn, n, chunk, ci, cj, request, response,
                   inflight, queries, sleeps, issued, answered, anoms, failedAt>>

\* The next iteration of the two chunk loops, or the return after the last.
NextIteration ==
    IF cj + 1 < NumChunks
    THEN /\ cj' = cj + 1
         /\ pc' = "request"
         /\ UNCHANGED <<ci, result>>
    ELSE IF ci + 1 < NumChunks
    THEN /\ ci' = ci + 1
         /\ cj' = 0
         /\ pc' = "request"
         /\ UNCHANGED result
    ELSE /\ result' = Returned(matrix)
         /\ pc' = "done"
         /\ UNCHANGED <<ci, cj>>

\* Faulty variant of Sleep: the loop goes to its next iteration without the delay.
SleepOmitted ==
    /\ UNCHANGED <<cvars, xvars>>
    /\ pc = "sleep"
    /\ NextIteration
    /\ UNCHANGED <<fn, n, chunk, matrix, request, response,
                   inflight, queries, copies, sleeps, issued, answered, anoms,
                   failedAt, outcomes>>

\* time.sleep(...) at the end of the loop body, then the loop goes on.
Sleep ==
    /\ UNCHANGED <<cvars, xvars>>
    /\ pc = "sleep"
    /\ sleeps' = sleeps + 1
    /\ NextIteration
    /\ UNCHANGED <<fn, n, chunk, matrix, request, response,
                   inflight, queries, copies, issued, answered, anoms,
                   failedAt, outcomes>>

Next ==
    \/ EnterOsm
    \/ EnterGlobal
    \/ Issue
    \/ Respond
    \/ HandleOsm
    \/ HandleGlobal
    \/ Sleep

Spec == Init /\ [][Next]_vars

\* ------------------------------------------------ the node catalog
\* A free-text label is held as its words (case-folded), whether its text is
\* all upper-case, and whether it has leading or trailing whitespace.  A
\* spreadsheet cell that may be empty (NaN) is a sequence of 0 or 1 values.
Label(pad, upper, words) == [pad |-> pad, upper |-> upper, words |-> words]

\* str.strip() and str.upper() on a label.
Strip(l) == [l EXCEPT !.pad = FALSE]
Upper(l) == [l EXCEPT !.upper = TRUE]

\* normalize_name:  str(name).strip().upper()
normalize_name(name) == Upper(Strip(name))

\* DEPOT_COORDINATES: the keys are upper-case labels without padding; the
\* coordinates are in micro-degrees.
DEPOT_COORDINATES ==
    [key \in {Label(FALSE, TRUE, w) : w \in {<<"MCC", "BULDHANA">>,
                                             <<"MCC", "BUTTIBORI">>,
                                             <<"MCC", "DHANOLI">>,
                                             <<"BMC", "MANAPUR">>,
                                             <<"BMC", "DAHID">>,
                                             <<"BMC", "DHAD">>}} |->
        CASE key.words = <<"MCC", "BULDHANA">>  -> <<20977988, 76192343>>
          [] key.words = <<"MCC", "BUTTIBORI">> -> <<20942681, 78945645>>
          [] key.words = <<"MCC", "DHANOLI">>   -> <<21066017, 78602454>>
          [] key.words = <<"BMC", "MANAPUR">>   -> <<21382528, 79322877>>
          [] key.words = <<"BMC", "DAHID">>     -> <<20498811, 76062318>>
          [] key.words = <<"BMC", "DHAD">>      -> <<20380343, 75993664>>]

IsNa(cell) == cell = <<>>

\* The rows a spreadsheet may hold.  Dispatch labels: empty, "MCC Buldhana"
\* and "Dahid Bmc".  Names: " mcc buldhana ", "Buldhana Mcc" and "Farm".
\* Quantities: empty, 0 and 5.  Coordinates: present, or one of them empty.
DispatchInputs ==
    {<<>>,
     <<Label(FALSE, FALSE, <<"MCC", "BULDHANA">>)>>,
     <<Label(FALSE, FALSE, <<"DAHID", "BMC">>)>>}
NameInputs ==
    {Label(TRUE, FALSE, <<"MCC", "BULDHANA">>),
     Label(FALSE, FALSE, <<"BULDHANA", "MCC">>),
     Label(FALSE, FALSE, <<"FARM">>)}
QtyInputs == {<<>>, <<0>>, <<5 * Frac>>}
CoordInputs ==
    {<<<<21000000>>, <<77000000>>>>, <<<<>>, <<77000000>>>>, <<<<21000000>>, <<>>>>}
RowInputs ==
    {[dispatch |-> d, name |-> nm, qty |-> q, latitude |-> c[1], longitude |-> c[2]] :
        d \in DispatchInputs, nm \in NameInputs, q \in QtyInputs, c \in CoordInputs}

\* prepare_global_data is called on a spreadsheet of at most MaxRows rows; no
\* matrix builder is running.
InitCatalog ==
    /\ rows \in UNION {[1..k -> RowInputs] : k \in 0..MaxRows}
    /\ CatalogIdle
    /\ fn = "get_osrm_matrix_chunked" /\ n = 0 /\ chunk = CHUNK_SIZE
    /\ MatrixIdle
    /\ ExtrasIdle

\* Faulty variant of Unique: the distinct values, the latest first.
RECURSIVE UniqueReversed(_)
UniqueReversed(col) ==
    IF col = <<>> THEN <<>>
    ELSE LET before == UniqueReversed(SubSeq(col, 1, Len(col) - 1))
             x == col[Len(col)]
         IN  IF \E k \in DOMAIN before : before[k] = x
             THEN before
             ELSE <<x>> \o before

\* Series.unique(): the distinct values in order of first occurrence.
RECURSIVE Unique(_)
Unique(col) ==
    IF col = <<>> THEN <<>>
    ELSE LET before == Unique(SubSeq(col, 1, Len(col) - 1))
             x == col[Len(col)]
         IN  IF \E k \in DOMAIN before : before[k] = x
             THEN before
             ELSE Append(before, x)

\* Series.dropna() on the dispatch column, the labels unwrapped.
NotNa(cell) == ~IsNa(cell)
DropNa(col) == [k \in DOMAIN SelectSeq(col, NotNa) |-> SelectSeq(col, NotNa)[k][1]]

DispatchColumn == [k \in DOMAIN rows |-> rows[k].dispatch]

\* df[df[col_dispatch] == depot_name].iloc[0]
Proxy(depot_name) ==
    rows[CHOOSE k \in DOMAIN rows :
            /\ rows[k].dispatch = <<depot_name>>
            /\ \A j \in 1..(k - 1) : rows[j].dispatch # <<depot_name>>]

DepotNode(depot_name, lat, lon) ==
    [name |-> [prefix |-> "DEPOT-", label |-> depot_name],
     lat |-> lat, lon |-> lon, demand |-> 0, type |-> "depot"]

CustomerNode(row) ==
    [name |-> [prefix |-> "", label |-> Strip(row.name)],
     lat |-> row.latitude, lon |-> row.longitude,
     demand |-> PyInt(row.qty[1]), type |-> "customer"]

\* Lines 116-121: the distinct dispatch labels; the node list starts empty.
IdentifyDepots ==
    /\ UNCHANGED <<mvars, xvars>>
    /\ cpc = "load"
    /\ unique_depots' = Unique(DropNa(DispatchColumn))
    /\ nodes' = <<>>
    /\ depot_indices' = <<>>
    /\ depot_real_names' = <<>>
    /\ di' = 1
    /\ cpc' = "depots"
    /\ UNCHANGED <<rows, ri, count_cust, d_keys, node_row>>

\* Lines 123-139: one iteration of the depot loop.
AddDepot ==
    /\ UNCHANGED <<mvars, xvars>>
    /\ cpc = "depots" /\ di <= Len(unique_depots)
    /\ LET depot_name == unique_depots[di]
           d_key == normalize_name(depot_name)
           found == d_key \in DOMAIN DEPOT_COORDINATES
           lat == IF found THEN <<DEPOT_COORDINATES[d_key][1]>>
                  ELSE Proxy(depot_name).latitude
           lon == IF found THEN <<DEPOT_COORDINATES[d_key][2]>>
                  ELSE Proxy(depot_name).longitude
           current_idx == Len(nodes)
       IN  /\ nodes' = Append(nodes, DepotNode(depot_name, lat, lon))
           /\ depot_indices' = Append(depot_indices, current_idx)
           /\ depot_real_names' =
                 [i \in DOMAIN depot_real_names \cup {current_idx} |->
                     IF i = current_idx THEN Strip(depot_name)
                     ELSE depot_real_names[i]]
           /\ d_keys' = Append(d_keys, d_key)
           /\ node_row' = Append(node_row, 0)
    /\ di' = di + 1
    /\ UNCHANGED <<rows, cpc, unique_depots, ri, count_cust>>

\* Lines 141-143: the depot loop is over, the customer loop starts.
StartCustomers ==
    /\ UNCHANGED <<mvars, xvars>>
    /\ cpc = "depots" /\ di > Len(unique_depots)
    /\ count_cust' = 0
    /\ ri' = 1
    /\ cpc' = "customers"
    /\ UNCHANGED <<rows, unique_depots, nodes, depot_indices, depot_real_names,
                   di, d_keys, node_row>>

\* Lines 148-151: the three tests that make the loop skip a row.
Skipped(row) ==
    \/ IsNa(row.qty) \/ row.qty[1] = 0
    \/ IsNa(row.latitude) \/ IsNa(row.longitude)
    \/ normalize_name(Strip(row.name)) \in DOMAIN DEPOT_COORDINATES

\* Lines 144-158: one iteration of the customer loop.
ScanRow ==
    /\ UNCHANGED <<mvars, xvars>>
    /\ cpc = "customers" /\ ri <= Len(rows)
    /\ IF Skipped(rows[ri])
       THEN UNCHANGED <<nodes, count_cust, node_row>>
       ELSE /\ nodes' = Append(nodes, CustomerNode(rows[ri]))
            /\ count_cust' = count_cust + 1
            /\ node_row' = Append(node_row, ri)
    /\ ri' = ri + 1
    /\ UNCHANGED <<rows, cpc, unique_depots, depot_indices, depot_real_names,
                   di, d_keys>>

\* Line 160: the customer loop is over; the catalog is complete.
FinishCatalog ==
    /\ UNCHANGED <<mvars, xvars>>
    /\ cpc = "customers" /\ ri > Len(rows)
    /\ cpc' = "done"
    /\ UNCHANGED <<rows, unique_depots, nodes, depot_indices, depot_real_names,
                   di, ri, count_cust, d_keys, node_row>>

NextCatalog ==
    \/ IdentifyDepots
    \/ AddDepot
    \/ StartCustomers
    \/ ScanRow
    \/ FinishCatalog

SpecCatalog == InitCatalog /\ [][NextCatalog]_vars

\* ------------------------------- prepare_global_data, from end to end
\* The configurations: the one in the source, and the same with the list of
\* "MCC Buldhana" or of "BMC Dhad" emptied (a depot that has no vehicle).
WithCaps(config, k, caps) == [config EXCEPT ![k].caps = caps]
FleetConfigs ==
    {FLEET_CONFIG, WithCaps(FLEET_CONFIG, 1, <<>>), WithCaps(FLEET_CONFIG, 6, <<>>)}

\* The rows of the end-to-end runs.  Dispatch labels: "MCC Buldhana",
\* "BMC DHAD" and "Dahid Bmc".  Quantities: empty, half a litre and 5 litres.
\* The name is "Farm" and both coordinates are present.
GlobalDispatchInputs ==
    {<<Label(FALSE, FALSE, <<"MCC", "BULDHANA">>)>>,
     <<Label(FALSE, TRUE,  <<"BMC", "DHAD">>)>>,
     <<Label(FALSE, FALSE, <<"DAHID", "BMC">>)>>}
GlobalQtyInputs == {<<>>, <<Frac \div 2>>, <<5 * Frac>>}
GlobalRowInputs ==
    {[dispatch |-> d, name |-> Label(FALSE, FALSE, <<"FARM">>), qty |-> q,
      latitude |-> <<21000000>>, longitude |-> <<77000000>>] :
        d \in GlobalDispatchInputs, q \in GlobalQtyInputs}

\* prepare_global_data is called on a spreadsheet of at most MaxRows rows
\* under one of the configurations.  The matrix builder is not yet called;
\* when it is, the service answers from its table or fails (anoms is at its
\* bound from the start).
InitGlobal ==
    /\ rows \in UNION {[1..k -> GlobalRowInputs] : k \in 0..MaxRows}
    /\ CatalogIdle
    /\ fn = "get_osrm_matrix_chunked" /\ n = 0 /\ chunk = CHUNK_SIZE
    /\ pc = "idle"
    /\ anoms = MaxAnom
    /\ MatrixFresh
    /\ fleet_config \in FleetConfigs
    /\ locations = <<>>
    /\ starts = <<>> /\ ends = <<>> /\ capacities = <<>>
    /\ fi = 1
    /\ fleets = <<>>
    /\ output = NoOutput
    /\ FeasibilityIdle
    /\ SplitIdle

\* Lines 163-164: the coordinates of the nodes are handed to
\* get_osrm_matrix_chunked.
CallMatrix ==
    /\ UNCHANGED OutsideGlobal
    /\ cpc = "done" /\ pc = "idle"
    /\ locations' = [k \in DOMAIN nodes |-> <<nodes[k].lat, nodes[k].lon>>]
    /\ n' = Len(nodes)
    /\ answered' = [r \in 0..(Len(nodes) - 1) |-> [c \in 0..(Len(nodes) - 1) |-> <<>>]]
    /\ pc' = "start"
    /\ cpc' = "matrix"
    /\ UNCHANGED <<fn, chunk, ci, cj, matrix, request, response, result,
                   inflight, queries, copies, sleeps, issued, anoms, failedAt,
                   outcomes>>
    /\ UNCHANGED <<rows, unique_depots, nodes, depot_indices, depot_real_names,
                   di, ri, count_cust, d_keys, node_row>>
    /\ UNCHANGED <<fleet_config, starts, ends, capacities, fi, fleets, output>>

\* `not matrix`: the builder returned None or an empty list.
MatrixFalsy == result.kind # "matrix" \/ DOMAIN result.m = {}

\* Lines 166-168: without a matrix nothing is written.
MatrixFailed ==
    /\ UNCHANGED OutsideGlobal
    /\ cpc = "matrix" /\ pc = "done"
    /\ MatrixFalsy
    /\ cpc' = "failed"
    /\ UNCHANGED <<mvars, gvars>>
    /\ UNCHANGED <<rows, unique_depots, nodes, depot_indices, depot_real_names,
                   di, ri, count_cust, d_keys, node_row>>

\* Lines 170-174: the three vehicle lists start empty.
StartFleet ==
    /\ UNCHANGED OutsideGlobal
    /\ cpc = "matrix" /\ pc = "done"
    /\ ~MatrixFalsy
    /\ starts' = <<>> /\ ends' = <<>> /\ capacities' = <<>>
    /\ fi' = 1
    /\ cpc' = "fleet"
    /\ UNCHANGED <<mvars, fleet_config, locations, fleets, output>>
    /\ UNCHANGED <<rows, unique_depots, nodes, depot_indices, depot_real_names,
                   di, ri, count_cust, d_keys, node_row>>

\* dict.get: the list of the entry whose key is the name, or None.
ConfigGet(config, name) ==
    IF \E k \in DOMAIN config : config[k].key = name
    THEN <<config[CHOOSE k \in DOMAIN config : config[k].key = name].caps>>
    ELSE <<>>

\* `not fleet`: None or an empty list.
NotFleet(fleet) == fleet = <<>> \/ fleet[1] = <<>>

\* Lines 180-183: the first key equal to the name once both are upper-cased.
UpperMatch(config, name) ==
    IF \E k \in DOMAIN config : Upper(config[k].key) = Upper(name)
    THEN <<config[CHOOSE k \in DOMAIN config :
                    /\ Upper(config[k].key) = Upper(name)
                    /\ \A j \in 1..(k - 1) : Upper(config[j].key) # Upper(name)].caps>>
    ELSE <<>>

\* Lines 178-184: the fleet of the depot called real_name.
ResolveFleet(config, real_name) ==
    LET exact == ConfigGet(config, real_name)
        second == IF NotFleet(exact) /\ UpperMatch(config, real_name) # <<>>
                  THEN UpperMatch(config, real_name)
                  ELSE exact
        third == IF NotFleet(second)
                 THEN ConfigGet(config, Label(FALSE, TRUE, <<"DEFAULT">>))
                 ELSE second
    IN  third[1]

\* A list of k copies of x.
Repeat(x, k) == [p \in 1..k |-> x]

\* Faulty variant of AssignFleet: one end node per depot instead of one per
\* vehicle.
AssignFleetOneEnd ==
    /\ UNCHANGED OutsideGlobal
    /\ cpc = "fleet" /\ fi <= Len(depot_indices)
    /\ LET d_idx == depot_indices[fi]
           fleet == ResolveFleet(fleet_config, depot_real_names[d_idx])
       IN  /\ starts' = starts \o Repeat(d_idx, Len(fleet))
           /\ ends' = Append(ends, d_idx)
           /\ capacities' = capacities \o fleet
           /\ fleets' = Append(fleets, fleet)
    /\ fi' = fi + 1
    /\ UNCHANGED <<mvars, fleet_config, locations, output>>
    /\ UNCHANGED <<rows, cpc, unique_depots, nodes, depot_indices,
                   depot_real_names, di, ri, count_cust, d_keys, node_row>>

\* Lines 176-189: one iteration of the fleet loop.
AssignFleet ==
    /\ UNCHANGED OutsideGlobal
    /\ cpc = "fleet" /\ fi <= Len(depot_indices)
    /\ LET d_idx == depot_indices[fi]
           real_name == depot_real_names[d_idx]
           fleet == ResolveFleet(fleet_config, real_name)
       IN  /\ starts' = starts \o Repeat(d_idx, Len(fleet))
           /\ ends' = ends \o Repeat(d_idx, Len(fleet))
           /\ capacities' = capacities \o fleet
           /\ fleets' = Append(fleets, fleet)
    /\ fi' = fi + 1
    /\ UNCHANGED <<mvars, fleet_config, locations, output>>
    /\ UNCHANGED <<rows, cpc, unique_depots, nodes, depot_indices,
                   depot_real_names, di, ri, count_cust, d_keys, node_row>>

\* Faulty variant of Document: the names are listed last node first.
DocumentNamesReversed(m, nds, caps, sts, eds) ==
    [distance_matrix |-> m,
     demands |-> [k \in DOMAIN nds |-> nds[k].demand],
     vehicle_capacities |-> caps,
     num_vehicles |-> Len(sts),
     starts |-> sts,
     ends |-> eds,
     names |-> [k \in DOMAIN nds |-> nds[Len(nds) + 1 - k].name],
     locations |-> [k \in DOMAIN nds |-> [lat |-> nds[k].lat, lon |-> nds[k].lon]]]

\* Lines 194-203: the document.  A list holds index i at position i + 1; the
\* matrix is indexed from 0.
Document(m, nds, caps, sts, eds) ==
    [distance_matrix |-> m,
     demands |-> [k \in DOMAIN nds |-> nds[k].demand],
     vehicle_capacities |-> caps,
     num_vehicles |-> Len(sts),
     starts |-> sts,
     ends |-> eds,
     names |-> [k \in DOMAIN nds |-> nds[k].name],
     locations |-> [k \in DOMAIN nds |-> [lat |-> nds[k].lat, lon |-> nds[k].lon]]]

\* Lines 191-207: the fleet loop is over; the document is written.
Export ==
    /\ UNCHANGED OutsideGlobal
    /\ cpc = "fleet" /\ fi > Len(depot_indices)
    /\ output' = <<Document(result.m, nodes, capacities, starts, ends)>>
    /\ cpc' = "saved"
    /\ UNCHANGED <<mvars, fleet_config, locations, starts, ends, capacities,
                   fi, fleets>>
    /\ UNCHANGED <<rows, unique_depots, nodes, depot_indices, depot_real_names,
                   di, ri, count_cust, d_keys, node_row>>

NextGlobal ==
    \/ IdentifyDepots
    \/ AddDepot
    \/ StartCustomers
    \/ ScanRow
    \/ FinishCatalog
    \/ CallMatrix
    \/ EnterGlobal
    \/ Issue
    \/ Respond
    \/ HandleGlobal
    \/ Sleep
    \/ MatrixFailed
    \/ StartFleet
    \/ AssignFleet
    \/ Export

SpecGlobal == InitGlobal /\ [][NextGlobal]_vars

\* ----------------------------------------------------- check_feasibility
\* Lines 33-34: the nodes check_feasibility takes for depots and for
\* customers, as lists of indices in increasing order.
RECURSIVE IndicesWhere(_, _, _)
IndicesWhere(demands, positive, k) ==
    IF k > Len(demands) THEN <<>>
    ELSE IF (positive /\ demands[k] > 0) \/ (~positive /\ demands[k] = 0)
    THEN <<k - 1>> \o IndicesWhere(demands, positive, k + 1)
    ELSE IndicesWhere(demands, positive, k + 1)

DepotIndicesOf(demands) == IndicesWhere(demands, FALSE, 1)
CustomerIndicesOf(demands) == IndicesWhere(demands, TRUE, 1)

\* Faulty variant of MaxOf: the smallest capacity.
RECURSIVE MinOf(_)
MinOf(caps) ==
    IF Len(caps) = 1 THEN caps[1]
    ELSE LET rest == MinOf(SubSeq(caps, 2, Len(caps)))
         IN  IF caps[1] < rest THEN caps[1] ELSE rest

\* Line 36: max() of a non-empty list.
RECURSIVE MaxOf(_)
MaxOf(caps) ==
    IF Len(caps) = 1 THEN caps[1]
    ELSE LET rest == MaxOf(SubSeq(caps, 2, Len(caps)))
         IN  IF caps[1] > rest THEN caps[1] ELSE rest

\* Lines 65-77: the smallest round trip between node i and a depot; <<>> is
\* float('inf'), kept when there is no depot.
RECURSIVE MinDistToDepot(_, _, _, _)
MinDistToDepot(dist_matrix, i, depots, min_dist) ==
    IF depots = <<>> THEN min_dist
    ELSE LET d_idx == depots[1]
             d1 == dist_matrix[d_idx][i]
             d2 == dist_matrix[i][d_idx]
             round_trip_dist == d1 + d2
             smaller == min_dist = <<>> \/ round_trip_dist < min_dist[1]
         IN  MinDistToDepot(dist_matrix, i, SubSeq(depots, 2, Len(depots)),
                            IF smaller THEN <<round_trip_dist>> ELSE min_dist)

\* Line 80:  min_dist_to_depot >= 999999
Unreachable(min_dist) == min_dist = <<>> \/ min_dist[1] >= 999999

\* Faulty variant of TooLong: a drive of exactly the limit is too long.
TooLongOrEqual(dist) ==
    dist * 60 >= (MAX_ROUTE_TIME_HOURS * 60) * (AVERAGE_SPEED_KMPH * 1000)

\* Lines 37-38, 85, 87:  dist / speed_mpm > max_time_mins  with
\* speed_mpm = AVERAGE_SPEED_KMPH * 1000 / 60.0 and max_time_mins =
\* MAX_ROUTE_TIME_HOURS * 60.  Both sides are multiplied by 60 * speed_mpm to
\* compare in integers; the floating-point quotient of the source decides the
\* same way for every whole number of metres up to twice the sentinel.
TooLong(dist) ==
    dist * 60 > (MAX_ROUTE_TIME_HOURS * 60) * (AVERAGE_SPEED_KMPH * 1000)

\* The documents check_feasibility is run on.  The depots come first, with
\* demand 0, then the customers.  The distance between a depot and a customer
\* is, in each direction, half the distance driven in MAX_ROUTE_TIME_HOURS,
\* one metre more, or the sentinel.
LimitMetres == MAX_ROUTE_TIME_HOURS * AVERAGE_SPEED_KMPH * 1000
HalfLimit == LimitMetres \div 2
MinuteMetres == (AVERAGE_SPEED_KMPH * 1000) \div 60 + 1
FeasDistances == {HalfLimit, HalfLimit + 1, SENTINEL}
FeasDemands == {600, 1200}
FeasFleets == {<<1000, 1000>>, <<500, 2000>>}

LegPairs(nd, nc) ==
    {p \in (0..(nd + nc - 1)) \X (0..(nd + nc - 1)) : (p[1] < nd) # (p[2] < nd)}

FeasDoc(nd, dem, legs, caps) ==
    [distance_matrix |->
        [r \in 0..(nd + Len(dem) - 1) |-> [c \in 0..(nd + Len(dem) - 1) |->
            IF r = c THEN 0
            ELSE IF <<r, c>> \in DOMAIN legs THEN legs[<<r, c>>]
            ELSE HalfLimit]],
     demands |-> [k \in 1..(nd + Len(dem)) |-> IF k <= nd THEN 0 ELSE dem[k - nd]],
     vehicle_capacities |-> caps,
     names |-> [k \in 1..(nd + Len(dem)) |-> k - 1]]

\* d is one of the documents of at most MaxN nodes.
FeasFamily(d) ==
    \E nd \in 0..MaxN :
        \E dem \in UNION {[1..k -> FeasDemands] : k \in 0..(MaxN - nd)} :
            \E legs \in [LegPairs(nd, Len(dem)) -> FeasDistances] :
                \E caps \in FeasFleets :
                    d = FeasDoc(nd, dem, legs, caps)

\* The scenario of two depots A and B with fleets [1000] and [1000] and
\* three customers of demands 400, 600 and 1200.  From A each customer is at
\* the limit, about one minute beyond it, or cut off; B is cut off.
ScenarioLegs ==
    {<<HalfLimit, HalfLimit>>, <<HalfLimit, HalfLimit + MinuteMetres>>, <<SENTINEL, 0>>}
ScenarioDoc(x) ==
    FeasDoc(2, <<400, 600, 1200>>,
            [p \in LegPairs(2, 3) |->
                IF p[1] = 0 THEN x[p[2] - 1][1]
                ELSE IF p[2] = 0 THEN x[p[1] - 1][2]
                ELSE SENTINEL],
            <<1000, 1000>>)
ScenarioDocs == {ScenarioDoc(x) : x \in [1..3 -> ScenarioLegs]}

\* check_feasibility is run on one document; nothing else is running.
InitFeasibility ==
    /\ FeasFamily(data) \/ data \in ScenarioDocs
    /\ fpc = "start"
    /\ f_depot_indices = <<>> /\ f_customer_indices = <<>>
    /\ max_vehicle_cap = 0
    /\ fk = 1
    /\ impossible_load_count = 0 /\ impossible_time_count = 0
    /\ load_fails = <<>> /\ time_fails = <<>>
    /\ fn = "get_osrm_matrix_chunked" /\ n = 0 /\ chunk = CHUNK_SIZE
    /\ MatrixIdle
    /\ rows = <<>>
    /\ CatalogIdle
    /\ GlobalIdle
    /\ SplitIdle

\* Lines 26-44: the two classes of nodes and the largest capacity.  max() of
\* an empty list raises.
Extract ==
    /\ UNCHANGED OutsideFeasibility
    /\ fpc = "start"
    /\ f_depot_indices' = DepotIndicesOf(data.demands)
    /\ f_customer_indices' = CustomerIndicesOf(data.demands)
    /\ IF data.vehicle_capacities = <<>>
       THEN /\ fpc' = "raised"
            /\ UNCHANGED max_vehicle_cap
       ELSE /\ fpc' = "capacity"
            /\ max_vehicle_cap' = MaxOf(data.vehicle_capacities)
    /\ impossible_load_count' = 0
    /\ fk' = 1
    /\ UNCHANGED <<data, impossible_time_count, load_fails, time_fails>>

\* Lines 45-48: one iteration of the capacity loop.
CheckLoad ==
    /\ UNCHANGED OutsideFeasibility
    /\ fpc = "capacity" /\ fk <= Len(f_customer_indices)
    /\ LET i == f_customer_indices[fk]
       IN  IF data.demands[i + 1] > max_vehicle_cap
           THEN /\ load_fails' = Append(load_fails, i)
                /\ impossible_load_count' = impossible_load_count + 1
           ELSE UNCHANGED <<load_fails, impossible_load_count>>
    /\ fk' = fk + 1
    /\ UNCHANGED <<data, fpc, f_depot_indices, f_customer_indices,
                   max_vehicle_cap, impossible_time_count, time_fails>>

\* Lines 50-61: the capacity loop is over, the time loop starts.
StartTime ==
    /\ UNCHANGED OutsideFeasibility
    /\ fpc = "capacity" /\ fk > Len(f_customer_indices)
    /\ impossible_time_count' = 0
    /\ fk' = 1
    /\ fpc' = "time"
    /\ UNCHANGED <<data, f_depot_indices, f_customer_indices, max_vehicle_cap,
                   impossible_load_count, load_fails, time_fails>>

\* Faulty variant of CheckTime: without the continue of line 83.
CheckTimeNoContinue ==
    /\ UNCHANGED OutsideFeasibility
    /\ fpc = "time" /\ fk <= Len(f_customer_indices)
    /\ LET i == f_customer_indices[fk]
           min_dist_to_depot ==
               MinDistToDepot(data.distance_matrix, i, f_depot_indices, <<>>)
           first == IF Unreachable(min_dist_to_depot)
                    THEN <<[node |-> i, kind |-> "unreachable"]>> ELSE <<>>
           second == IF min_dist_to_depot = <<>> \/ TooLong(min_dist_to_depot[1])
                     THEN <<[node |-> i, kind |-> "time"]>> ELSE <<>>
       IN  /\ time_fails' = time_fails \o first \o second
           /\ impossible_time_count' = impossible_time_count + Len(first) + Len(second)
    /\ fk' = fk + 1
    /\ UNCHANGED <<data, fpc, f_depot_indices, f_customer_indices,
                   max_vehicle_cap, impossible_load_count, load_fails>>

\* Lines 63-94: one iteration of the time loop.
CheckTime ==
    /\ UNCHANGED OutsideFeasibility
    /\ fpc = "time" /\ fk <= Len(f_customer_indices)
    /\ LET i == f_customer_indices[fk]
           min_dist_to_depot ==
               MinDistToDepot(data.distance_matrix, i, f_depot_indices, <<>>)
       IN  IF Unreachable(min_dist_to_depot)
           THEN /\ time_fails' = Append(time_fails, [node |-> i, kind |-> "unreachable"])
                /\ impossible_time_count' = impossible_time_count + 1
           ELSE IF TooLong(min_dist_to_depot[1])
           THEN /\ time_fails' = Append(time_fails, [node |-> i, kind |-> "time"])
                /\ impossible_time_count' = impossible_time_count + 1
           ELSE UNCHANGED <<time_fails, impossible_time_count>>
    /\ fk' = fk + 1
    /\ UNCHANGED <<data, fpc, f_depot_indices, f_customer_indices,
                   max_vehicle_cap, impossible_load_count, load_fails>>

\* Lines 96-101: the time loop is over.
FinishFeasibility ==
    /\ UNCHANGED OutsideFeasibility
    /\ fpc = "time" /\ fk > Len(f_customer_indices)
    /\ fpc' = "done"
    /\ UNCHANGED <<data, f_depot_indices, f_customer_indices, max_vehicle_cap,
                   fk, impossible_load_count, impossible_time_count, load_fails,
                   time_fails>>

NextFeasibility ==
    \/ Extract
    \/ CheckLoad
    \/ StartTime
    \/ CheckTime
    \/ FinishFeasibility

SpecFeasibility == InitFeasibility /\ [][NextFeasibility]_vars

\* -------------------------------------------------- process_and_split
\* A quantity cell that holds text instead of a number is a pair.
TextCell == <<"text", "text">>
IsText(cell) == Len(cell) = 2

\* Line 47: fillna(0) on the quantity column.
FillNa(cell) == IF IsNa(cell) THEN <<0>> ELSE cell

\* Lines 10-17: is_valid_coordinate, on cells in micro-degrees.
is_valid_coordinate(lat, lon) ==
    IF IsNa(lat) \/ IsNa(lon) THEN FALSE
    ELSE IF lat[1] = 0 \/ lon[1] = 0 THEN FALSE
    ELSE IF ~(/\ -90000000 <= lat[1] /\ lat[1] <= 90000000
              /\ -180000000 <= lon[1] /\ lon[1] <= 180000000) THEN FALSE
    ELSE TRUE

\* The rows process_and_split may read.  Dispatch labels: "BMC Dahid" and
\* "MCC Buldhana", in the order groupby sorts them.  A row at one of two valid
\* places has a quantity that is empty, 3.5 (or the nearest fraction below
\* 4) or 5; a row with a missing latitude, a zero longitude or a latitude out
\* of range has quantity 5; a row whose quantity is text is at the first
\* valid place or has a missing latitude.
SplitLabels ==
    << Label(FALSE, FALSE, <<"BMC", "DAHID">>),
       Label(FALSE, FALSE, <<"MCC", "BULDHANA">>) >>
ValidPlaces ==
    {<< <<21000000>>, <<77000000>> >>,
     << <<20000000>>, <<76000000>> >>}
InvalidPlaces ==
    {<< <<>>,         <<77000000>> >>,
     << <<21000000>>, <<0>> >>,
     << <<91000000>>, <<77000000>> >>}
SplitCells ==
    (ValidPlaces \X {<<>>, <<4 * Frac - 1>>, <<5 * Frac>>})
        \cup (InvalidPlaces \X {<<5 * Frac>>})
        \cup ({<< <<21000000>>, <<77000000>> >>, << <<>>, <<77000000>> >>} \X {TextCell})
SplitRow(d, place, q) ==
    [dispatch |-> <<SplitLabels[d]>>, name |-> Label(FALSE, FALSE, <<"FARM">>),
     qty |-> q, latitude |-> place[1], longitude |-> place[2]]
SplitRowInputs ==
    {SplitRow(d, x[1], x[2]) : d \in DOMAIN SplitLabels, x \in SplitCells}

\* Sheets of three rows: two "BMC Dahid" rows with a quantity, at the first
\* and at the second valid place, then any row.
SplitScenarios ==
    {<<SplitRow(1, << <<21000000>>, <<77000000>> >>, q1),
       SplitRow(1, << <<20000000>>, <<76000000>> >>, q2), c>> :
        q1 \in {<<4 * Frac - 1>>, <<5 * Frac>>},
        q2 \in {<<4 * Frac - 1>>, <<5 * Frac>>},
        c \in SplitRowInputs}

\* process_and_split is called on a spreadsheet of at most MaxRows rows, or on
\* one of the sheets of three rows above.  No
\* matrix builder is called yet; when one is, the service answers from its
\* table or fails (anoms is at its bound from the start).
InitSplit ==
    /\ rows \in UNION {[1..k -> SplitRowInputs] : k \in 0..MaxRows} \cup SplitScenarios
    /\ spc = "start"
    /\ groups = <<>>
    /\ gi = 1 /\ gri = 1
    /\ s_locations = <<>> /\ s_demands = <<>>
    /\ bad_rows = <<>>
    /\ failed_dispatches = <<>>
    /\ written = <<>>
    /\ fn = "build_osrm_distance_matrix" /\ n = 0 /\ chunk = MAX_POINTS
    /\ pc = "idle"
    /\ anoms = MaxAnom
    /\ MatrixFresh
    /\ cpc = "idle"
    /\ CatalogFresh
    /\ GlobalIdle
    /\ FeasibilityIdle

\* Line 53: groupby(COL_DISPATCH): the labels present, sorted.
HasRows(l) == \E k \in DOMAIN rows : rows[k].dispatch = <<l>>
GroupKeys == SelectSeq(SplitLabels, HasRows)

\* Lines 55-58: the indices of the rows of the current group, in row order.
RECURSIVE RowsOf(_, _)
RowsOf(l, k) ==
    IF k > Len(rows) THEN <<>>
    ELSE IF rows[k].dispatch = <<l>> THEN <<k>> \o RowsOf(l, k + 1)
    ELSE RowsOf(l, k + 1)
GroupRows == RowsOf(groups[gi], 1)

\* Lines 20-53: the failed list starts empty; the frame is grouped.
StartSplit ==
    /\ UNCHANGED <<mvars, rows, OutsideSplit>>
    /\ spc = "start"
    /\ failed_dispatches' = <<>>
    /\ groups' = GroupKeys
    /\ gi' = 1
    /\ spc' = "group"
    /\ UNCHANGED <<gri, s_locations, s_demands, bad_rows, written>>

\* Lines 55-62: the next group starts with empty lists.
EnterGroup ==
    /\ UNCHANGED <<mvars, rows, OutsideSplit>>
    /\ spc = "group" /\ gi <= Len(groups)
    /\ s_locations' = <<>> /\ s_demands' = <<>> /\ bad_rows' = <<>>
    /\ gri' = 1
    /\ spc' = "rows"
    /\ UNCHANGED <<groups, gi, failed_dispatches, written>>

\* Lines 64-79: one iteration of the row loop.  int() of a text raises, and
\* nothing catches it.
ReadRow ==
    /\ UNCHANGED <<mvars, rows, OutsideSplit>>
    /\ spc = "rows" /\ gri <= Len(GroupRows)
    /\ LET index == GroupRows[gri]
           row == rows[index]
           lat == row.latitude
           lon == row.longitude
           qty == FillNa(row.qty)
       IN  IF IsText(qty)
           THEN /\ spc' = "raised"
                /\ UNCHANGED <<gri, s_locations, s_demands, bad_rows>>
           ELSE /\ IF ~is_valid_coordinate(lat, lon)
                   THEN /\ bad_rows' = Append(bad_rows,
                                [row_index |-> index - 1, latitude |-> lat,
                                 longitude |-> lon, demand |-> PyInt(qty[1])])
                        /\ UNCHANGED <<s_locations, s_demands>>
                   ELSE /\ s_locations' = Append(s_locations, <<lat[1], lon[1]>>)
                        /\ s_demands' = Append(s_demands, PyInt(qty[1]))
                        /\ UNCHANGED bad_rows
                /\ gri' = gri + 1
                /\ UNCHANGED spc
    /\ UNCHANGED <<groups, gi, failed_dispatches, written>>

\* Faulty variant of LastDemand: the first demand given for the location.
FirstDemand(locs, dems, loc) ==
    dems[CHOOSE k \in DOMAIN locs :
            /\ locs[k] = loc
            /\ \A j \in 1..(k - 1) : locs[j] # loc]

\* Lines 92-97: a dict keyed by location keeps the first position of each
\* location and the last demand given for it.
LastDemand(locs, dems, loc) ==
    dems[CHOOSE k \in DOMAIN locs :
            /\ locs[k] = loc
            /\ \A j \in (k + 1)..Len(locs) : locs[j] # loc]
UniqueDemands(locs, dems) ==
    [k \in DOMAIN Unique(locs) |-> LastDemand(locs, dems, Unique(locs)[k])]

\* Line 102:  demands[0] = 0
DepotDemandZero(dems) == [dems EXCEPT ![1] = 0]

\* Line 106: build_osrm_distance_matrix is called on len_locations places.
CallBuilder(len_locations) ==
    /\ n' = len_locations
    /\ pc' = "start"
    /\ ci' = 0 /\ cj' = 0
    /\ matrix' = <<>>
    /\ request' = NoRequest
    /\ response' = NoResponse
    /\ result' = Pending
    /\ inflight' = 0 /\ queries' = 0 /\ copies' = 0 /\ sleeps' = 0
    /\ issued' = <<>>
    /\ answered' = [r \in 0..(len_locations - 1) |->
                        [c \in 0..(len_locations - 1) |-> <<>>]]
    /\ failedAt' = 0
    /\ outcomes' = {}
    /\ UNCHANGED <<fn, chunk, anoms>>

\* Faulty variant of CleanGroup: the first demand is left as it is.
CleanGroupKeepsDemand ==
    /\ UNCHANGED <<rows, OutsideSplit>>
    /\ spc = "rows" /\ gri > Len(GroupRows)
    /\ IF Len(s_locations) = 0
       THEN /\ failed_dispatches' =
                  Append(failed_dispatches, <<groups[gi], "No valid coordinates">>)
            /\ gi' = gi + 1
            /\ spc' = "group"
            /\ UNCHANGED <<mvars, s_locations, s_demands>>
       ELSE /\ s_locations' = Unique(s_locations)
            /\ s_demands' = UniqueDemands(s_locations, s_demands)
            /\ CallBuilder(Len(Unique(s_locations)))
            /\ spc' = "matrix"
            /\ UNCHANGED <<gi, failed_dispatches>>
    /\ UNCHANGED <<groups, gri, bad_rows, written>>

\* Lines 81-106: the row loop is over.  A group without a valid location is
\* recorded as failed; otherwise duplicates are removed, the first demand is
\* set to 0 and the matrix builder is called.
CleanGroup ==
    /\ UNCHANGED <<rows, OutsideSplit>>
    /\ spc = "rows" /\ gri > Len(GroupRows)
    /\ IF Len(s_locations) = 0
       THEN /\ failed_dispatches' =
                  Append(failed_dispatches, <<groups[gi], "No valid coordinates">>)
            /\ gi' = gi + 1
            /\ spc' = "group"
            /\ UNCHANGED <<mvars, s_locations, s_demands>>
       ELSE /\ s_locations' = Unique(s_locations)
            /\ s_demands' = DepotDemandZero(UniqueDemands(s_locations, s_demands))
            /\ CallBuilder(Len(Unique(s_locations)))
            /\ spc' = "matrix"
            /\ UNCHANGED <<gi, failed_dispatches>>
    /\ UNCHANGED <<groups, gri, bad_rows, written>>

\* Faulty variant of MatrixRaised: the group loop ends at the failed group.
MatrixRaisedBreaks ==
    /\ UNCHANGED <<mvars, rows, OutsideSplit>>
    /\ spc = "matrix" /\ pc = "done" /\ result.kind = "raise"
    /\ failed_dispatches' = Append(failed_dispatches, <<groups[gi], "OSRM">>)
    /\ gi' = Len(groups) + 1
    /\ spc' = "group"
    /\ UNCHANGED <<groups, gri, s_locations, s_demands, bad_rows, written>>

\* Lines 107-113: the builder raised; the group is recorded as failed and
\* the loop goes on.
MatrixRaised ==
    /\ UNCHANGED <<mvars, rows, OutsideSplit>>
    /\ spc = "matrix" /\ pc = "done" /\ result.kind = "raise"
    /\ failed_dispatches' = Append(failed_dispatches, <<groups[gi], "OSRM">>)
    /\ gi' = gi + 1
    /\ spc' = "group"
    /\ UNCHANGED <<groups, gri, s_locations, s_demands, bad_rows, written>>

\* Lines 115-130: the document of the group is written.
WriteDocument ==
    /\ UNCHANGED <<mvars, rows, OutsideSplit>>
    /\ spc = "matrix" /\ pc = "done" /\ result.kind = "matrix"
    /\ written' = Append(written,
                    [dispatch_location |-> groups[gi],
                     distance_matrix |-> result.m,
                     demands |-> s_demands,
                     num_vehicles |-> 3,
                     vehicle_capacity |-> 500,
                     depot |-> 0])
    /\ gi' = gi + 1
    /\ spc' = "group"
    /\ UNCHANGED <<groups, gri, s_locations, s_demands, bad_rows, failed_dispatches>>

\* Lines 132-139: the group loop is over.
FinishSplit ==
    /\ UNCHANGED <<mvars, rows, OutsideSplit>>
    /\ spc = "group" /\ gi > Len(groups)
    /\ spc' = "done"
    /\ UNCHANGED <<groups, gi, gri, s_locations, s_demands, bad_rows,
                   failed_dispatches, written>>

NextSplit ==
    \/ StartSplit
    \/ EnterGroup
    \/ ReadRow
    \/ CleanGroup
    \/ EnterOsm
    \/ Issue
    \/ Respond
    \/ HandleOsm
    \/ Sleep
    \/ MatrixRaised
    \/ WriteDocument
    \/ FinishSplit

SpecSplit == InitSplit /\ [][NextSplit]_vars

\* ------------------------------------------------ the two preparations
\* Either prepare_global_data or process_and_split is run.
InitPrep == InitGlobal \/ InitSplit

NextPrep ==
    \/ IdentifyDepots
    \/ AddDepot
    \/ StartCustomers
    \/ ScanRow
    \/ FinishCatalog
    \/ CallMatrix
    \/ EnterGlobal
    \/ HandleGlobal
    \/ MatrixFailed
    \/ StartFleet
    \/ AssignFleet
    \/ Export
    \/ StartSplit
    \/ EnterGroup
    \/ ReadRow
    \/ CleanGroup
    \/ EnterOsm
    \/ HandleOsm
    \/ MatrixRaised
    \/ WriteDocument
    \/ FinishSplit
    \/ Issue
    \/ Respond
    \/ Sleep

SpecPrep == InitPrep /\ [][NextPrep]_vars

\* ================================================================ claims
Cell == (0..(n - 1)) \X (0..(n - 1))
Succeeded == pc = "done" /\ result.kind = "matrix"

\* ceil(a / b), from its defining inequalities.
Ceil(a, b) == CHOOSE k \in 0..a : k * b >= a /\ (k - 1) * b < a

\* Every answer of the service was a whole, non-null number of metres.
WholeAnswers ==
    \A x \in Cell : \A k \in DOMAIN answered[x[1]][x[2]] :
        /\ IsNum(answered[x[1]][x[2]][k])
        /\ answered[x[1]][x[2]][k][1] % Frac = 0

\* C1: merge correctness.  With a chunk size below N and a service that
\* answers every cell with a whole non-null distance d(r, c), a successful
\* build asked for every cell (r, c) exactly once and returns a matrix whose
\* cell [r][c] is d(r, c): what one unchunked query would give.
C1_MergeCorrect ==
    (Succeeded /\ chunk < n /\ WholeAnswers) =>
        \A x \in Cell :
            /\ Len(answered[x[1]][x[2]]) = 1
            /\ result.m[x[1]][x[2]] * Frac = answered[x[1]][x[2]][1][1]

\* C1 witness: a finished build of 3 locations in uneven chunks of 2 and 1,
\* in which one off-diagonal answer was the whole number 0.
C1_Witness ==
    /\ Succeeded /\ chunk = 2 /\ n = 3 /\ WholeAnswers /\ anoms = 1
    /\ \E x \in Cell : x[1] # x[2] /\ answered[x[1]][x[2]] = <<Num(0)>>

\* C2: fail-fast.  Once a query got a non-success status or a response
\* without a distances payload, no further query is issued, the build ends in
\* its next step, and the caller gets the failure (an exception from
\* build_osrm_distance_matrix, None from get_osrm_matrix_chunked), never a
\* matrix.
C2_FailFast ==
    failedAt # 0 =>
        /\ queries = failedAt
        /\ pc \in {"handle", "done"}
        /\ pc = "done" =>
               result = (IF fn = "build_osrm_distance_matrix" THEN Raised ELSE ReturnedNone)

\* C2 witness: get_osrm_matrix_chunked ended on a failure at a query that was
\* neither the first nor the last, after copying earlier responses.
C2_Witness ==
    /\ fn = "get_osrm_matrix_chunked" /\ pc = "done" /\ result = ReturnedNone
    /\ failedAt > 1 /\ failedAt < NumChunks * NumChunks
    /\ copies = failedAt - 1

\* C3: error policies are not mixed within one build: no build both replaces
\* a failure (a null entry) by the sentinel and aborts on another failure.
C3_NoMixedPolicies == ~({"sentinel", "abort"} \subseteq outcomes)

\* C4: a distance of exactly 0 or null answered for a non-diagonal cell is
\* never stored as the sentinel 999999.
C4_NoSentinelForZeroOrNull ==
    pc # "start" =>
        \A x \in Cell :
            (/\ x[1] # x[2]
             /\ answered[x[1]][x[2]] # <<>>
             /\ answered[x[1]][x[2]][1] \in {Null, Num(0)}
             /\ x[1] \in DOMAIN matrix)
            => matrix[x[1]][x[2]] # SENTINEL

\* C5: when every response is successful the builder returns an N x N
\* matrix, which is [] for N = 0 and [[0]] for N = 1.
C5_ShapeAndDegenerate ==
    (pc = "done" /\ failedAt = 0) =>
        /\ result.kind = "matrix"
        /\ DOMAIN result.m = 0..(n - 1)
        /\ \A r \in 0..(n - 1) : DOMAIN result.m[r] = 0..(n - 1)
        /\ n = 0 => result.m = <<>>
        /\ n = 1 => result.m[0][0] = 0

\* The chunks are runs of at most `chunk` consecutive indices that together
\* cover 0..n-1 once, in order.
IsPartition(chunks) ==
    /\ \A k \in DOMAIN chunks :
          /\ Len(chunks[k]) >= 1 /\ Len(chunks[k]) <= chunk
          /\ \A p \in 1..(Len(chunks[k]) - 1) :
                chunks[k][p + 1] = chunks[k][p] + 1
          /\ chunks[k][1] = (IF k = 1 THEN 0
                             ELSE chunks[k - 1][Len(chunks[k - 1])] + 1)
    /\ IF n = 0 THEN chunks = <<>>
       ELSE chunks # <<>> /\ chunks[Len(chunks)][Len(chunks[Len(chunks)])] = n - 1

\* Every ordered pair of chunks was queried exactly once.
EachPairOnce ==
    \A a, b \in 0..(NumChunks - 1) :
        Cardinality({q \in DOMAIN issued : issued[q] = <<a, b>>}) = 1

\* C6 (as stated): a successful build issues ceil(N/C)^2 queries, for every N.
C6_QueryCountEveryN ==
    Succeeded => queries = Ceil(n, chunk) * Ceil(n, chunk)

\* C6 (amended): the chunks partition [0, N) into runs of at most C
\* consecutive indices, and a successful build issues exactly one query per
\* ordered pair of chunks, ceil(N/C)^2 in all; except that
\* build_osrm_distance_matrix issues no query at all when N = 1.
C6_QueryCount ==
    /\ IsPartition(Chunks(n, chunk))
    /\ Succeeded =>
          IF fn = "build_osrm_distance_matrix" /\ n = 1
          THEN queries = 0
          ELSE /\ queries = Ceil(n, chunk) * Ceil(n, chunk)
               /\ Len(issued) = queries
               /\ EachPairOnce

\* C6 witness: a finished build of 3 locations in chunks of 2 and 1: 4 queries.
C6_Witness == Succeeded /\ n = 3 /\ chunk = 2 /\ queries = 4

\* C7: queries are serialized with a delay.  At most one query is in flight,
\* and whenever a query is in flight every earlier response has been copied
\* into the matrix and one delay has elapsed after each of them.
C7_Serialized ==
    /\ inflight <= 1
    /\ pc = "wait" =>
          /\ inflight = 1
          /\ copies = queries - 1
          /\ sleeps = queries - 1
    /\ pc # "wait" => inflight = 0

\* C7 witness: the third query of a build is in flight.
C7_Witness == pc = "wait" /\ queries = 3 /\ sleeps = 2 /\ copies = 2

\* Two word lists are the same words in some order.
SameWords(a, b) ==
    /\ Len(a) = Len(b)
    /\ \E p \in Permutations(DOMAIN a) : \A i \in DOMAIN a : a[i] = b[p[i]]

\* The orders in which the words of a label can be written.
WordOrders(w) == {[i \in DOMAIN w |-> w[p[i]]] : p \in Permutations(DOMAIN w)}

\* The canonical key of the label (trimmed, upper-cased, words sorted) is the
\* canonical key of a depot of the registry.
IsCanonicalDepotKey(l) ==
    \E key \in DOMAIN DEPOT_COORDINATES : SameWords(l.words, key.words)

\* The admission rule as the claim states it.
Admissible(row) ==
    /\ ~IsNa(row.qty) /\ row.qty[1] # 0
    /\ ~IsNa(row.latitude) /\ ~IsNa(row.longitude)
    /\ ~IsCanonicalDepotKey(row.name)

CustomersOfRow(i) ==
    {k \in DOMAIN nodes : nodes[k].type = "customer" /\ node_row[k] = i}

\* C8: customer admission.  When the catalog is complete, a row has exactly
\* one customer node if its demand is present and non-zero, both coordinates
\* are present and its canonicalized name is not the canonical key of a
\* depot, and no customer node otherwise.
C8_CustomerAdmission ==
    cpc = "done" =>
        \A i \in DOMAIN rows :
            Cardinality(CustomersOfRow(i)) = (IF Admissible(rows[i]) THEN 1 ELSE 0)

\* C9: the canonical key is word-order-insensitive.  The key computed for a
\* dispatch label is the key of the same words written in any other order,
\* and a label whose words are those of a registry entry gets that entry's
\* coordinates.
C9_WordOrderInsensitive ==
    \A k \in DOMAIN d_keys :
        /\ \A w \in WordOrders(unique_depots[k].words) :
              normalize_name([unique_depots[k] EXCEPT !.words = w]) = d_keys[k]
        /\ \A key \in DOMAIN DEPOT_COORDINATES :
              SameWords(unique_depots[k].words, key.words) =>
                  /\ nodes[k].lat = <<DEPOT_COORDINATES[key][1]>>
                  /\ nodes[k].lon = <<DEPOT_COORDINATES[key][2]>>

\* The first row that carries the dispatch label.
FirstRow(l) ==
    CHOOSE k \in DOMAIN rows :
        /\ rows[k].dispatch = <<l>>
        /\ \A j \in 1..(k - 1) : rows[j].dispatch # <<l>>

DepotNodes == {k \in DOMAIN nodes : nodes[k].type = "depot"}
CustomerNodes == {k \in DOMAIN nodes : nodes[k].type = "customer"}

\* C10: node ordering.  Every depot node comes before every customer node;
\* the depot nodes are one per distinct dispatch label, in the order in which
\* the labels first occur in the rows; the customer nodes are in row order.
C10_NodeOrdering ==
    /\ \A i \in DepotNodes : \A j \in CustomerNodes : i < j
    /\ \A i, j \in DepotNodes :
          i < j => FirstRow(nodes[i].name.label) < FirstRow(nodes[j].name.label)
    /\ cpc \in {"customers", "done"} =>
          {nodes[k].name.label : k \in DepotNodes} =
          {rows[k].dispatch[1] : k \in {j \in DOMAIN rows : ~IsNa(rows[j].dispatch)}}
    /\ \A i, j \in CustomerNodes : i < j => node_row[i] < node_row[j]

\* C10 witness: a complete catalog with two depots and two customers.
C10_Witness ==
    /\ cpc = "done"
    /\ Cardinality(DepotNodes) = 2
    /\ Cardinality(CustomerNodes) = 2

\* --------------------------------------------------------------- fleet
\* The three tiers as the specification orders them: the entry whose name is
\* the depot's name; else the first entry whose name equals it once case and
\* surrounding whitespace are normalized; else the DEFAULT entry.
TierFleet(config, name) ==
    IF \E k \in DOMAIN config : config[k].key = name
    THEN config[CHOOSE k \in DOMAIN config : config[k].key = name].caps
    ELSE IF \E k \in DOMAIN config : normalize_name(config[k].key) = normalize_name(name)
    THEN config[CHOOSE k \in DOMAIN config :
                    /\ normalize_name(config[k].key) = normalize_name(name)
                    /\ \A j \in 1..(k - 1) :
                          normalize_name(config[j].key) # normalize_name(name)].caps
    ELSE config[CHOOSE k \in DOMAIN config :
                    config[k].key = Label(FALSE, TRUE, <<"DEFAULT">>)].caps

\* C11: every depot gets the fleet of the first tier that matches its name
\* (exact name, then normalized name, then DEFAULT), whatever capacity list
\* that tier maps to.
C11_TierOrder ==
    \A k \in DOMAIN fleets :
        fleets[k] = TierFleet(fleet_config, depot_real_names[depot_indices[k]])

RECURSIVE SumLen(_)
SumLen(lists) ==
    IF lists = <<>> THEN 0
    ELSE Len(lists[1]) + SumLen(SubSeq(lists, 2, Len(lists)))

IsDepotIndex(i) ==
    /\ \E k \in DOMAIN depot_indices : depot_indices[k] = i
    /\ i + 1 \in DOMAIN nodes
    /\ nodes[i + 1].type = "depot"

ResolvedFleets ==
    [k \in DOMAIN depot_indices |->
        ResolveFleet(fleet_config, depot_real_names[depot_indices[k]])]

\* C12: the three vehicle lists have one length, the sum of the sizes of the
\* fleets resolved for the depots handled so far, and every vehicle starts
\* and ends at the index of one depot node; in the document num_vehicles is
\* that length and the sum runs over all depots.
C12_FleetInvariant ==
    /\ cpc \in {"fleet", "saved"} =>
          /\ Len(starts) = Len(ends)
          /\ Len(ends) = Len(capacities)
          /\ Len(capacities) = SumLen(SubSeq(ResolvedFleets, 1, fi - 1))
          /\ \A v \in DOMAIN starts :
                starts[v] = ends[v] /\ IsDepotIndex(starts[v])
    /\ output # NoOutput =>
          LET doc == output[1]
          IN  /\ doc.num_vehicles = Len(doc.starts)
              /\ doc.num_vehicles = Len(doc.ends)
              /\ doc.num_vehicles = Len(doc.vehicle_capacities)
              /\ doc.num_vehicles = SumLen(ResolvedFleets)
              /\ \A v \in DOMAIN doc.starts :
                    doc.starts[v] = doc.ends[v] /\ IsDepotIndex(doc.starts[v])

\* A document for two depots with seven vehicles between them.
C12_Witness ==
    /\ output # NoOutput
    /\ Len(depot_indices) = 2
    /\ output[1].num_vehicles = 7
    /\ output[1].starts[4] # output[1].starts[5]

\* C13: in the document demands, names and locations have the length N of
\* the N x N matrix, and index i is node i in each of them and in row and
\* column i of the matrix.
C13_IndexConsistency ==
    output # NoOutput =>
        LET doc == output[1]
            N == Len(doc.demands)
        IN  /\ N = Len(nodes)
            /\ Len(doc.names) = N
            /\ Len(doc.locations) = N
            /\ DOMAIN doc.distance_matrix = 0..(N - 1)
            /\ \A r \in 0..(N - 1) : DOMAIN doc.distance_matrix[r] = 0..(N - 1)
            /\ \A i \in 0..(N - 1) :
                  /\ doc.demands[i + 1] = nodes[i + 1].demand
                  /\ doc.names[i + 1] = nodes[i + 1].name
                  /\ doc.locations[i + 1].lat = nodes[i + 1].lat
                  /\ doc.locations[i + 1].lon = nodes[i + 1].lon
                  /\ <<doc.locations[i + 1].lat, doc.locations[i + 1].lon>> = locations[i + 1]
            /\ \A r \in 0..(N - 1) : \A c \in 0..(N - 1) :
                  doc.distance_matrix[r][c] = GlobalCell(Base(r, c))

\* A document of two depots and two customers.
C13_Witness ==
    /\ output # NoOutput
    /\ Len(output[1].demands) = 4
    /\ Len(depot_indices) = 2
    /\ output[1].names[1] # output[1].names[4]

\* --------------------------------------------------------- feasibility
NodeIndices == 0..(Len(data.demands) - 1)
ZeroDemand == {i \in NodeIndices : data.demands[i + 1] = 0}
PositiveDemand == {i \in NodeIndices : data.demands[i + 1] > 0}
Largest(caps) == CHOOSE x \in {caps[k] : k \in DOMAIN caps} :
                    \A k \in DOMAIN caps : x >= caps[k]
TooBig == {i \in PositiveDemand : data.demands[i + 1] > Largest(data.vehicle_capacities)}
LoadChecked == fpc \in {"time", "done"}

\* The customers the time loop has handled.
TimeChecked ==
    IF fpc \in {"time", "done"}
    THEN {f_customer_indices[k] : k \in 1..(fk - 1)}
    ELSE {}

\* The round trips between customer i and the depots, and whether one of
\* them is shorter than the sentinel.
RoundTrips(i) ==
    {data.distance_matrix[d][i] + data.distance_matrix[i][d] : d \in ZeroDemand}
Shortest(i) == CHOOSE x \in RoundTrips(i) : \A y \in RoundTrips(i) : x <= y
WithinSentinel(i) == \E x \in RoundTrips(i) : x < SENTINEL
Reports(i, kind) == {k \in DOMAIN time_fails : time_fails[k] = [node |-> i, kind |-> kind]}
OfNode(i) == {k \in DOMAIN time_fails : time_fails[k].node = i}

\* C15: once the capacity loop is over it has reported exactly the customers
\* whose demand exceeds the largest capacity of the fleet, each once, and
\* impossible_load_count is their number; in the scenario of two depots,
\* fleets [1000] and [1000] and demands 400, 600, 1200 it reports exactly
\* the customer of demand 1200.
C15_CapacityCheck ==
    LoadChecked =>
        /\ {load_fails[k] : k \in DOMAIN load_fails} = TooBig
        /\ Len(load_fails) = Cardinality(TooBig)
        /\ impossible_load_count = Cardinality(TooBig)
        /\ data \in ScenarioDocs => load_fails = <<4>>

\* The scenario has been checked: only node 4 (demand 1200) is reported.
C15_Witness ==
    /\ fpc = "done"
    /\ data.demands = <<0, 0, 400, 600, 1200>>
    /\ data.vehicle_capacities = <<1000, 1000>>
    /\ load_fails = <<4>>
    /\ impossible_load_count = 1

\* C16: a customer handled by the time loop whose shortest round trip is
\* below the sentinel is reported as a time violation exactly when that
\* round trip takes more than MAX_ROUTE_TIME_HOURS at AVERAGE_SPEED_KMPH,
\* that is when it is longer than LimitMetres: not at the limit, and always
\* from one minute of driving beyond it.
C16_TimeBoundary ==
    \A i \in TimeChecked :
        WithinSentinel(i) =>
            /\ Reports(i, "time") # {} <=> Shortest(i) > LimitMetres
            /\ Shortest(i) = LimitMetres => OfNode(i) = {}
            /\ Shortest(i) >= LimitMetres + MinuteMetres => Reports(i, "time") # {}

\* One customer exactly at the limit, not reported, and one a minute of
\* driving beyond it, reported.
C16_Witness ==
    /\ fpc = "done"
    /\ \E i \in TimeChecked :
          WithinSentinel(i) /\ Shortest(i) = LimitMetres /\ OfNode(i) = {}
    /\ \E i \in TimeChecked :
          /\ WithinSentinel(i)
          /\ Shortest(i) = LimitMetres + MinuteMetres
          /\ Reports(i, "time") # {}

\* C17: a customer handled by the time loop with no round trip below the
\* sentinel is reported once, as unreachable, and counted once in
\* impossible_time_count, which counts the reports of the time loop only;
\* whether the capacity loop reported the customer, and its count, are as
\* they were.
C17_SentinelUnreachable ==
    /\ \A i \in TimeChecked :
          ~WithinSentinel(i) =>
              /\ Cardinality(OfNode(i)) = 1
              /\ Reports(i, "unreachable") = OfNode(i)
    /\ \A i \in TimeChecked :
          (\E k \in DOMAIN load_fails : load_fails[k] = i) <=> i \in TooBig
    /\ fpc \in {"time", "done"} =>
          /\ impossible_time_count = Len(time_fails)
          /\ impossible_load_count = Len(load_fails)

\* An unreachable customer the capacity check reported too, and an
\* unreachable one it did not report.
C17_Witness ==
    /\ fpc = "done"
    /\ \E i \in TimeChecked :
          ~WithinSentinel(i) /\ i \in TooBig /\ Cardinality(OfNode(i)) = 1
    /\ \E i \in TimeChecked :
          ~WithinSentinel(i) /\ i \notin TooBig /\ Cardinality(OfNode(i)) = 1
    /\ impossible_load_count = 1
    /\ impossible_time_count >= 2

\* ------------------------------------------------------- depot demand
\* C14: every depot node of the node list has demand 0, every document of
\* prepare_global_data gives demand 0 to every depot node, and every
\* document of process_and_split gives demand 0 to its node 0, the depot.
C14_DepotDemandZero ==
    /\ \A k \in DOMAIN nodes : nodes[k].type = "depot" => nodes[k].demand = 0
    /\ output # NoOutput =>
          /\ \A k \in DOMAIN nodes :
                nodes[k].type = "depot" => output[1].demands[k] = 0
          /\ \A k \in DOMAIN depot_indices :
                output[1].demands[depot_indices[k] + 1] = 0
    /\ \A k \in DOMAIN written :
          written[k].demands[written[k].depot + 1] = 0

\* A document of two nodes whose first row came with a quantity of 5.
C14_Witness ==
    /\ written # <<>>
    /\ Len(written[1].demands) = 2
    /\ written[1].demands[1] = 0
    /\ rows[RowsOf(written[1].dispatch_location, 1)[1]].qty = <<5 * Frac>>
    /\ is_valid_coordinate(rows[RowsOf(written[1].dispatch_location, 1)[1]].latitude,
                           rows[RowsOf(written[1].dispatch_location, 1)[1]].longitude)

\* ------------------------------------------------------------ row errors
\* A row process_and_split must not use: a coordinate missing, zero or out of
\* range, or a quantity missing or not a number.
Defective(row) ==
    \/ ~is_valid_coordinate(row.latitude, row.longitude)
    \/ IsNa(row.qty)
    \/ IsText(row.qty)
RowLoopOver == spc = "rows" /\ gri > Len(GroupRows)

\* C18: the run never aborts on a row; when the row loop of a group is over,
\* the defective rows of the group are the ones skipped and counted, and
\* every other row of the group has given one location and one demand.
C18_RowErrorsNotFatal ==
    /\ spc # "raised"
    /\ RowLoopOver =>
          /\ {bad_rows[k].row_index + 1 : k \in DOMAIN bad_rows}
                = {GroupRows[k] : k \in {j \in DOMAIN GroupRows : Defective(rows[GroupRows[j]])}}
          /\ Len(bad_rows) + Len(s_locations) = Len(GroupRows)
          /\ Len(s_demands) = Len(s_locations)

\* ------------------------------------------------------ failed groups
\* The groups the loop has dealt with, the entries of the failed list and
\* the documents of a label, and whether the label has a usable row.
GroupsDone ==
    IF spc \in {"group", "rows", "matrix", "raised", "done"}
    THEN {groups[k] : k \in 1..(gi - 1)}
    ELSE {}
FailuresOf(l) == {k \in DOMAIN failed_dispatches : failed_dispatches[k][1] = l}
DocumentsOf(l) == {k \in DOMAIN written : written[k].dispatch_location = l}
NoValidLocation(l) ==
    \A k \in DOMAIN rows :
        rows[k].dispatch = <<l>> =>
            ~is_valid_coordinate(rows[k].latitude, rows[k].longitude)
JustReturned == spc = "group" /\ gi > 1 /\ ~NoValidLocation(groups[gi - 1])

\* C19: every group the loop has dealt with is either in the failed list,
\* once, or has one document, never both; a group without a valid location
\* or whose matrix build raised is in the failed list; and when the run ends
\* every group of the sheet has been dealt with.
C19_FailureIsolation ==
    /\ \A l \in GroupsDone :
          /\ Cardinality(FailuresOf(l)) + Cardinality(DocumentsOf(l)) = 1
          /\ NoValidLocation(l) =>
                /\ FailuresOf(l) # {}
                /\ failed_dispatches[CHOOSE k \in FailuresOf(l) : TRUE][2]
                      = "No valid coordinates"
    /\ JustReturned =>
          /\ result.kind = "raise" => FailuresOf(groups[gi - 1]) # {}
          /\ result.kind = "matrix" => DocumentsOf(groups[gi - 1]) # {}
    /\ Len(failed_dispatches) + Len(written) = Cardinality(GroupsDone)
    /\ spc = "done" => GroupsDone = {l \in {SplitLabels[k] : k \in DOMAIN SplitLabels} : HasRows(l)}

\* The matrix build of the first group raised, and the second group has its
\* document.
C19_Witness ==
    /\ spc = "done"
    /\ Len(groups) = 2
    /\ ~NoValidLocation(groups[1])
    /\ FailuresOf(groups[1]) # {}
    /\ DocumentsOf(groups[2]) # {}

\* ------------------------------------------------- demand and node kind
\* C20: in the document a node has demand 0 exactly when it is a depot and a
\* positive demand exactly when it is a customer, so that the depots and
\* customers of check_feasibility are those of the catalog.
C20_DemandTellsKind ==
    output # NoOutput =>
        /\ \A k \in DOMAIN nodes :
              /\ output[1].demands[k] = 0 <=> nodes[k].type = "depot"
              /\ output[1].demands[k] > 0 <=> nodes[k].type = "customer"
        /\ {DepotIndicesOf(output[1].demands)[k] :
                k \in DOMAIN DepotIndicesOf(output[1].demands)}
              = {i \in 0..(Len(nodes) - 1) : nodes[i + 1].type = "depot"}
        /\ {CustomerIndicesOf(output[1].demands)[k] :
                k \in DOMAIN CustomerIndicesOf(output[1].demands)}
              = {i \in 0..(Len(nodes) - 1) : nodes[i + 1].type = "customer"}

\* ------------------------------------------------ duplicate coordinates
\* The group whose document was written last, its rows with valid
\* coordinates, and the place and the demand of such a row.
JustWritten ==
    /\ spc \in {"group", "done"}
    /\ gi > 1
    /\ written # <<>>
    /\ written[Len(written)].dispatch_location = groups[gi - 1]
ValidRowsOf(l) ==
    {k \in DOMAIN rows :
        /\ rows[k].dispatch = <<l>>
        /\ is_valid_coordinate(rows[k].latitude, rows[k].longitude)}
PlaceOf(k) == <<rows[k].latitude[1], rows[k].longitude[1]>>
DemandOf(k) == IF IsNa(rows[k].qty) THEN 0 ELSE rows[k].qty[1] \div Frac
FirstAt(l, place) ==
    CHOOSE k \in ValidRowsOf(l) :
        PlaceOf(k) = place /\ \A j \in ValidRowsOf(l) : PlaceOf(j) = place => k <= j
LastAt(l, place) ==
    CHOOSE k \in ValidRowsOf(l) :
        PlaceOf(k) = place /\ \A j \in ValidRowsOf(l) : PlaceOf(j) = place => k >= j

\* C21: when a document has just been written, the locations of its group
\* are the distinct valid coordinates of the group, each once, in the order
\* of their first rows; demands has the length of the locations and of both
\* dimensions of the matrix; demands[0] is 0 and every other demands[k] is
\* the demand of the last valid row at location k.
C21_DedupAligned ==
    JustWritten =>
        LET doc == written[Len(written)]
            l == doc.dispatch_location
            N == Len(doc.demands)
        IN  /\ {s_locations[k] : k \in DOMAIN s_locations}
                  = {PlaceOf(k) : k \in ValidRowsOf(l)}
            /\ \A i, j \in DOMAIN s_locations :
                  i < j => /\ s_locations[i] # s_locations[j]
                           /\ FirstAt(l, s_locations[i]) < FirstAt(l, s_locations[j])
            /\ N = Len(s_locations)
            /\ DOMAIN doc.distance_matrix = 0..(N - 1)
            /\ \A r \in 0..(N - 1) : DOMAIN doc.distance_matrix[r] = 0..(N - 1)
            /\ doc.demands[1] = 0
            /\ \A k \in 2..N :
                  doc.demands[k] = DemandOf(LastAt(l, s_locations[k]))

\* A document of two locations from three valid rows, the last two at one
\* place with different demands.
C21_Witness ==
    /\ JustWritten
    /\ Len(written[Len(written)].demands) = 2
    /\ Cardinality(ValidRowsOf(groups[gi - 1])) = 3
    /\ DemandOf(FirstAt(groups[gi - 1], s_locations[2]))
          # DemandOf(LastAt(groups[gi - 1], s_locations[2]))
    /\ written[Len(written)].demands[2] = DemandOf(LastAt(groups[gi - 1], s_locations[2]))

====
